---- MODULE Spec2Model ----
(***************************************************************************)
(* Model of zstdfile.c: a read-only, forward-seekable FILE cookie that     *)
(* decompresses a zstd stream.                                             *)
(*                                                                         *)
(* The byte source (FILE *in) and the decompression engine (libzstd) are   *)
(* external collaborators.  They are modelled by what their interface      *)
(* does for this code:                                                     *)
(*   - the source is a finite byte sequence with a position, an EOF flag   *)
(*     and an error flag (fread / rewind / ferror / feof);                 *)
(*   - the engine is a streaming decoder of a scaled-down frame format:    *)
(*     a 4-byte little-endian magic number, then blocks.  A block is one   *)
(*     header byte (bit 0: last block, the rest: payload size) followed by *)
(*     the payload; a block is decoded as a whole into the engine's        *)
(*     internal buffer and flushed into the caller's output buffer as far  *)
(*     as there is room (zstd.h: "when an operation returns with an output *)
(*     buffer completely full, it's possible there is some more data left  *)
(*     within internal buffers").  It returns 0 when a frame is completely *)
(*     decoded and fully flushed, an error code on malformed data, and a   *)
(*     positive hint otherwise.                                            *)
(* Buffer sizes are scaled down; offsets stay far below 2^32 and 2^63, so  *)
(* the fixed-width arithmetic of the C code never wraps in the model.      *)
(***************************************************************************)
EXTENDS Integers, Sequences, FiniteSets, TLC

(* ------------------------------ bounds --------------------------------- *)

\* ZSTD_DStreamInSize(), scaled down: capacity of 'inbuf'
InSize == 6
\* ZSTD_DStreamOutSize(), scaled down: capacity of 'outbuf'
OutSize == 2
\* scratch buffer of the forward-seek skip loop (32 KiB in the code), scaled
bsz == 2
\* largest 'size' a caller passes to read
MaxRead == 3
\* largest number of blocks in the first frame of a source
MaxBlocks == 2
\* largest offset argument a caller passes to seek
MaxSeek == 5

(* --------------------------- program constants ------------------------- *)

\* 0xFD2FB528.  A 32-bit value is written as its two 16-bit halves
\* <<high, low>>, because the model checker's integers are 32-bit signed.
ZSTD_MAGICNUMBER == <<64815, 46376>>
ENOBUFS == 105
EINVAL == 22
EIO == 5
SEEK_SET == 0
SEEK_CUR == 1
SEEK_END == 2

\* a block never decodes to more than the output buffer holds
\* (ZSTD_DStreamOutSize() >= ZSTD_BLOCKSIZE_MAX)
BlockMax == OutSize

min(a, b) == IF a < b THEN a ELSE b

Take(s, n) == SubSeq(s, 1, n)
Drop(s, n) == SubSeq(s, n + 1, Len(s))

\* memcpy/fread/engine write of 'data' at the start of a buffer whose known
\* content is 'old'
Overlay(data, old) == data \o Drop(old, min(Len(data), Len(old)))

(* ------------------------------ header --------------------------------- *)

\* the header decoded with the bytes in the opposite order
be32dec(hdr) == <<hdr[2] + 256 * hdr[1], hdr[4] + 256 * hdr[3]>>

le32dec(hdr) == <<hdr[3] + 256 * hdr[4], hdr[1] + 256 * hdr[2]>>

\* the magic number as it appears in a file
MagicBytes == <<40, 181, 47, 253>>

(* --------------------------- compressed data --------------------------- *)

\* payload byte that encodes the k-th decoded byte of a source
Payload(k) == 10 + k

\* what the engine makes of one payload byte
DecodeByte(p) == 255 - p

\* one block: header byte, then 'size' payload bytes; k decoded bytes precede
Block(size, last, k) ==
    <<(IF last THEN 1 ELSE 0) + 2 * size>> \o [i \in 1..size |-> Payload(k + i)]

\* the blocks of the given payload sizes; the final one is flagged as the
\* last block of its frame iff fin
RECURSIVE Blocks(_, _, _)
Blocks(sizes, k, fin) ==
    IF sizes = <<>> THEN <<>>
    ELSE Block(Head(sizes), fin /\ Len(sizes) = 1, k)
             \o Blocks(Tail(sizes), k + Head(sizes), fin)

RECURSIVE Sum(_)
Sum(sizes) == IF sizes = <<>> THEN 0 ELSE Head(sizes) + Sum(Tail(sizes))

\* one complete frame whose blocks have the given payload sizes
Frame(sizes, k) == MagicBytes \o Blocks(sizes, k, TRUE)

\* the start of a frame that goes on after the given blocks
OpenFrame(sizes) == MagicBytes \o Blocks(sizes, 0, FALSE)

\* the block sizes of a frame: an empty frame, or up to MaxBlocks blocks
BlockLists == {<<0>>} \cup UNION {[1..n -> 1..BlockMax] : n \in 1..MaxBlocks}

\* what may follow the first frame: nothing, a second frame, or garbage
Trailers(sizes) == {<<>>, Frame(<<1>>, Sum(sizes)), <<0, 0, 0, 0>>}

FullSources ==
    UNION {{Frame(sizes, 0) \o t : t \in Trailers(sizes)} : sizes \in BlockLists}
        \cup {OpenFrame(sizes) : sizes \in BlockLists}

\* sources that do not start with the magic number
PlainSources == {<<253, 47, 181, 40, 3, 11>>, <<40, 181, 47, 0, 3, 11>>,
                 <<104, 105, 33, 10>>}

\* every source: any prefix of a full source (a truncated file), or plain data
Sources == UNION {{Take(s, n) : n \in 0..Len(s)} : s \in FullSources}
               \cup PlainSources

Modes == {<<"r">>, <<"r", "b">>, <<"r", "+">>, <<"w">>, <<"a">>, <<"w", "b">>}

(* ------------------------------ FILE *in ------------------------------- *)

\* fread(ptr, 1, n, f): the bytes read and the stream afterwards.  A short
\* count comes with the EOF indicator (e = 0), or with the error indicator
\* when the underlying read fails at the end of the data with errno e.
Fread(f, n, e) ==
    LET avail == Len(f.data) - f.pos IN
    IF avail >= n
    THEN [f |-> [f EXCEPT !.pos = f.pos + n],
          data |-> SubSeq(f.data, f.pos + 1, f.pos + n)]
    ELSE [f |-> [f EXCEPT !.pos = Len(f.data),
                          !.eof = f.eof \/ (e = 0),
                          !.err = f.err \/ (e # 0)],
          data |-> SubSeq(f.data, f.pos + 1, Len(f.data))]

\* rewind(f): back to the start, indicators cleared
Rewind(f) == [f EXCEPT !.pos = 0, !.eof = FALSE, !.err = FALSE]

(* --------------------------- the engine -------------------------------- *)

\* a decompression context after ZSTD_createDCtx / ZSTD_initDStream:
\*   stage   "hdr" reading the frame header, "bhdr" expecting a block header,
\*           "data" loading a block's payload, "end" frame completely decoded
\*   out     decoded bytes not yet flushed to the caller's output buffer
\*   hostage the last input byte is held back until 'out' is flushed
InitDCtx ==
    [stage |-> "hdr", hbuf |-> <<>>, need |-> 0, last |-> FALSE,
     blk |-> <<>>, out |-> <<>>, hostage |-> FALSE]

\* the engine takes one input byte
Consume(d, b) ==
    CASE d.stage = "hdr" ->
            LET h == d.hbuf \o <<b>> IN
            IF Len(h) < 4 THEN [d |-> [d EXCEPT !.hbuf = h], err |-> FALSE]
            ELSE IF le32dec(h) = ZSTD_MAGICNUMBER
                 THEN [d |-> [d EXCEPT !.hbuf = <<>>, !.stage = "bhdr"],
                       err |-> FALSE]
                 ELSE [d |-> d, err |-> TRUE]
      [] d.stage = "bhdr" ->
            LET size == b \div 2
                last == (b % 2 = 1) IN
            IF size > BlockMax THEN [d |-> d, err |-> TRUE]
            ELSE IF size = 0
                 THEN [d |-> [d EXCEPT !.stage = IF last THEN "end" ELSE "bhdr"],
                       err |-> FALSE]
                 ELSE [d |-> [d EXCEPT !.stage = "data", !.need = size,
                                       !.last = last, !.blk = <<>>],
                       err |-> FALSE]
      [] OTHER ->
            LET blk == d.blk \o <<b>> IN
            IF d.need > 1
            THEN [d |-> [d EXCEPT !.blk = blk, !.need = d.need - 1],
                  err |-> FALSE]
            ELSE [d |-> [d EXCEPT !.blk = <<>>, !.need = 0,
                                  !.out = [i \in 1..Len(blk) |-> DecodeByte(blk[i])],
                                  !.stage = IF d.last THEN "end" ELSE "bhdr"],
                  err |-> FALSE]

\* the engine's work loop: flush what is pending, stop when the output is
\* full, the frame has ended or the input is used up, else take a byte
RECURSIVE DStep(_, _, _, _, _, _)

\* the work loop after a byte was taken with outcome c
DNext(c, d, inb, ipos, isize, o, cap) ==
    IF c.err
    THEN [d |-> d, ipos |-> ipos, out |-> o, err |-> TRUE]
    ELSE DStep(c.d, inb, ipos + 1, isize, o, cap)

DStep(d, inb, ipos, isize, o, cap) ==
    IF d.out # <<>>
    THEN LET n == min(cap - Len(o), Len(d.out))
             d1 == [d EXCEPT !.out = Drop(d.out, n)]
             o1 == o \o Take(d.out, n) IN
         IF n < Len(d.out)
         THEN [d |-> d1, ipos |-> ipos, out |-> o1, err |-> FALSE]
         ELSE DStep(d1, inb, ipos, isize, o1, cap)
    ELSE IF d.stage = "end" \/ ipos = isize
    THEN [d |-> d, ipos |-> ipos, out |-> o, err |-> FALSE]
    ELSE DNext(Consume(d, inb[ipos + 1]), d, inb, ipos, isize, o, cap)

\* an error code of the engine
ZSTD_error == -1
ZSTD_isError(ret) == ret < 0

\* ZSTD_decompressStream(dctx, &obuf, &ibuf) with obuf.pos = 0: the return
\* value and the buffers' cursors once the work loop has stopped as r.
\* ret is 0 when the frame is completely decoded and fully flushed.  When the
\* frame is decoded but not flushed the engine gives back the last input
\* byte, so that the caller still has input and calls again.
DecompressReturn(r, isize) ==
    IF r.err
    THEN [d |-> r.d, ipos |-> r.ipos, out |-> r.out, ret |-> ZSTD_error]
    ELSE IF r.d.stage # "end"
    THEN [d |-> r.d, ipos |-> r.ipos, out |-> r.out, ret |-> 1]
    ELSE IF r.d.out # <<>>
    THEN IF r.d.hostage
         THEN [d |-> r.d, ipos |-> r.ipos, out |-> r.out, ret |-> 1]
         ELSE [d |-> [r.d EXCEPT !.hostage = TRUE], ipos |-> r.ipos - 1,
               out |-> r.out, ret |-> 1]
    ELSE IF r.d.hostage /\ r.ipos >= isize
    THEN [d |-> r.d, ipos |-> r.ipos, out |-> r.out, ret |-> 1]
    ELSE [d |-> InitDCtx,
          ipos |-> IF r.d.hostage THEN r.ipos + 1 ELSE r.ipos,
          out |-> r.out, ret |-> 0]

ZSTD_decompressStream(d, inb, ipos, isize, cap) ==
    DecompressReturn(DStep(d, inb, ipos, isize, <<>>, cap), isize)

(* ------------------------------ the cookie ----------------------------- *)

\* a released decompression context (cookie->decomp = NULL)
NullDCtx ==
    [stage |-> "null", hbuf |-> <<>>, need |-> 0, last |-> FALSE,
     blk |-> <<>>, out |-> <<>>, hostage |-> FALSE]

\* struct zstdfile before zstdfile_init has run on it (malloc'ed, or freed)
NoCookie ==
    [logic_offset |-> 0, decode_offset |-> 0, actual_len |-> 0,
     outbuf_start |-> 0, decomp |-> NullDCtx, inbuf |-> <<>>, outbuf |-> <<>>,
     inbuf_size |-> 0, obuf |-> [pos |-> 0, size |-> 0],
     ibuf |-> [pos |-> 0, size |-> 0], eof |-> FALSE, truncated |-> FALSE,
     allocated |-> FALSE]

\* zstdfile_init that leaves the truncated flag as it is
zstdfile_init_KeepTruncated(cookie) ==
    [cookie EXCEPT !.logic_offset = 0, !.decode_offset = 0, !.actual_len = 0,
                   !.decomp = InitDCtx,
                   !.inbuf_size = InSize, !.inbuf = <<>>,
                   !.ibuf = [pos |-> 0, size |-> 0],
                   !.obuf = [pos |-> 0, size |-> OutSize], !.outbuf = <<>>,
                   !.outbuf_start = 0, !.eof = FALSE,
                   !.allocated = TRUE]

zstdfile_init(cookie) ==
    [cookie EXCEPT !.logic_offset = 0, !.decode_offset = 0, !.actual_len = 0,
                   !.decomp = InitDCtx,
                   !.inbuf_size = InSize, !.inbuf = <<>>,
                   !.ibuf = [pos |-> 0, size |-> 0],
                   !.obuf = [pos |-> 0, size |-> OutSize], !.outbuf = <<>>,
                   !.outbuf_start = 0, !.eof = FALSE, !.truncated = FALSE,
                   !.allocated = TRUE]

zstdfile_cleanup(cookie) ==
    [cookie EXCEPT !.decomp = NullDCtx, !.inbuf = <<>>, !.outbuf = <<>>,
                   !.allocated = FALSE]

(* ------------------------------- read ---------------------------------- *)

\* Drain without "cookie->decode_offset += toread"
Drain_NoDecodeOffset(st) ==
    LET c == st.c
        left0 == c.obuf.pos - c.outbuf_start
        ignoreskip == min(st.ig, left0)
        ig == st.ig - ignoreskip
        start == c.outbuf_start + ignoreskip
        left == left0 - ignoreskip
        toread == IF ig > 0 THEN 0 ELSE min(left, st.size) IN
    IF left0 <= 0 THEN st
    ELSE [st EXCEPT !.ig = ig,
                    !.size = st.size - toread,
                    !.total = st.total + toread,
                    !.buf = st.buf \o SubSeq(c.outbuf, start + 1, start + toread),
                    !.c = [c EXCEPT !.outbuf_start = start + toread,
                                    !.decode_offset = c.decode_offset + ignoreskip,
                                    !.logic_offset = c.logic_offset + toread]]

\* Drain with the copy not capped by what is left in the output buffer
\* (toread = size): bytes past obuf.pos are whatever the buffer holds
Drain_Uncapped(st) ==
    LET c == st.c
        left0 == c.obuf.pos - c.outbuf_start
        ignoreskip == min(st.ig, left0)
        ig == st.ig - ignoreskip
        start == c.outbuf_start + ignoreskip
        toread == IF ig > 0 THEN 0 ELSE st.size IN
    IF left0 <= 0 THEN st
    ELSE [st EXCEPT !.ig = ig,
                    !.size = st.size - toread,
                    !.total = st.total + toread,
                    !.buf = st.buf \o [i \in 1..toread |->
                                          IF start + i <= Len(c.outbuf)
                                          THEN c.outbuf[start + i] ELSE 0],
                    !.c = [c EXCEPT !.outbuf_start = start + toread,
                                    !.decode_offset = c.decode_offset + ignoreskip + toread,
                                    !.logic_offset = c.logic_offset + toread]]

\* Drain with the copy taken from the start of outbuf instead of from
\* outbuf_start
Drain_FromBufferStart(st) ==
    LET c == st.c
        left0 == c.obuf.pos - c.outbuf_start
        ignoreskip == min(st.ig, left0)
        ig == st.ig - ignoreskip
        start == c.outbuf_start + ignoreskip
        left == left0 - ignoreskip
        toread == IF ig > 0 THEN 0 ELSE min(left, st.size) IN
    IF left0 <= 0 THEN st
    ELSE [st EXCEPT !.ig = ig,
                    !.size = st.size - toread,
                    !.total = st.total + toread,
                    !.buf = st.buf \o SubSeq(c.outbuf, 1, toread),
                    !.c = [c EXCEPT !.outbuf_start = start + toread,
                                    !.decode_offset = c.decode_offset + ignoreskip + toread,
                                    !.logic_offset = c.logic_offset + toread]]

\* The drain loop of zstdfile_read (one pass is all it ever makes: it either
\* satisfies the read, empties the output buffer, or breaks on ignorebytes).
Drain(st) ==
    LET c == st.c
        left0 == c.obuf.pos - c.outbuf_start
        ignoreskip == min(st.ig, left0)
        ig == st.ig - ignoreskip
        start == c.outbuf_start + ignoreskip
        left == left0 - ignoreskip
        toread == IF ig > 0 THEN 0 ELSE min(left, st.size) IN
    IF left0 <= 0 THEN st
    ELSE [st EXCEPT !.ig = ig,
                    !.size = st.size - toread,
                    !.total = st.total + toread,
                    !.buf = st.buf \o SubSeq(c.outbuf, start + 1, start + toread),
                    !.c = [c EXCEPT !.outbuf_start = start + toread,
                                    !.decode_offset = c.decode_offset + ignoreskip + toread,
                                    !.logic_offset = c.logic_offset + toread]]

\* "Read more input if empty", once fread has returned r: how is "ok", "out"
\* (goto out) or "exit"
RefillStore(st, r) ==
    LET c == st.c
        nb == Len(r.data)
        c1 == [c EXCEPT !.inbuf = Overlay(r.data, c.inbuf)]
        st1 == [st EXCEPT !.f = r.f, !.c = c1,
                          !.hit = st.hit \/ (Len(st.f.data) - st.f.pos < c.inbuf_size),
                          !.after = st.after \/ st.done,
                          !.errno = IF r.f.err THEN st.e ELSE st.errno] IN
    IF r.f.err
    THEN IF st1.errno = ENOBUFS
         THEN [st1 EXCEPT !.c.truncated = TRUE, !.how = "out"]
         ELSE [st1 EXCEPT !.how = "exit"]
    ELSE IF nb = 0 /\ r.f.eof
    THEN [st1 EXCEPT !.c.truncated = TRUE, !.how = "out"]
    ELSE [st1 EXCEPT !.c.ibuf = [pos |-> 0, size |-> nb], !.how = "ok"]

Refill(st) ==
    IF st.c.ibuf.pos # st.c.ibuf.size THEN [st EXCEPT !.how = "ok"]
    ELSE RefillStore(st, Fread(st.f, st.c.inbuf_size, st.e))

\* "Reset stream state to beginning of output buffer", and what the engine
\* returned as r
InflateStore(st, r) ==
    LET c == st.c
        inflated == Len(r.out) IN
    [st EXCEPT !.ret = r.ret,
               !.after = st.after \/ st.done,
               !.done = st.done \/ (r.ret = 0),
               !.how = IF ZSTD_isError(r.ret) THEN "exit" ELSE "ok",
               !.c = [c EXCEPT !.decomp = r.d,
                               !.ibuf.pos = r.ipos,
                               !.outbuf_start = 0,
                               !.obuf.pos = inflated,
                               !.outbuf = Overlay(r.out, c.outbuf),
                               !.actual_len = c.actual_len + inflated]]

Inflate(st) ==
    InflateStore(st, ZSTD_decompressStream(st.c.decomp, st.c.inbuf,
                                           st.c.ibuf.pos, st.c.ibuf.size,
                                           st.c.obuf.size))

\* the do ... while loop of zstdfile_read
RECURSIVE ReadLoop(_)

\* the loop after the engine call: exit on its error, else the loop condition
AfterInflate(d) ==
    IF d.how # "ok" THEN d
    ELSE IF ~d.f.err /\ d.size > 0 THEN ReadLoop(d) ELSE d

\* the loop after the refill: goto out / exit, else the engine call
AfterRefill(b) == IF b.how # "ok" THEN b ELSE AfterInflate(Inflate(b))

\* the loop after the drain, the frame-end test leaving the loop without
\* "cookie->eof = true"
AfterDrain_BreakWithoutEof(a) ==
    IF a.size = 0 THEN a
    ELSE IF a.c.obuf.pos # a.c.outbuf_start THEN [a EXCEPT !.how = "assert_obuf"]
    ELSE IF a.ret = 0 THEN a
    ELSE AfterRefill(Refill(a))

\* the loop after the drain: done, the assert, the frame-end test, the refill
AfterDrain(a) ==
    IF a.size = 0 THEN a
    ELSE IF a.c.obuf.pos # a.c.outbuf_start THEN [a EXCEPT !.how = "assert_obuf"]
    ELSE IF a.ret = 0 THEN [a EXCEPT !.c.eof = TRUE]
    ELSE AfterRefill(Refill(a))

ReadLoop(st) == AfterDrain(Drain(st))

\* the 'out:' label without "cookie->eof = true"
ReadOut_NoEof(st) ==
    IF st.how \notin {"ok", "out"} THEN [st EXCEPT !.result = 0]
    ELSE IF st.total > 0 THEN [st EXCEPT !.result = st.total, !.how = "ok"]
    ELSE IF st.c.truncated
    THEN [st EXCEPT !.errno = ENOBUFS, !.result = -1, !.how = "ok"]
    ELSE [st EXCEPT !.result = 0, !.how = "ok"]

\* the 'out:' label of zstdfile_read
ReadOut(st) ==
    IF st.how \notin {"ok", "out"} THEN [st EXCEPT !.result = 0]
    ELSE IF st.total > 0 THEN [st EXCEPT !.result = st.total, !.how = "ok"]
    ELSE IF st.c.truncated
    THEN [st EXCEPT !.errno = ENOBUFS, !.c.eof = TRUE, !.result = -1,
                    !.how = "ok"]
    ELSE [st EXCEPT !.result = 0, !.how = "ok"]

\* zstdfile_read without the "if (size == 0) return 0"
zstdfile_read_NoSizeTest(m, size, e) ==
    LET st == [c |-> m.c, f |-> m.f, errno |-> m.errno, done |-> m.done,
               after |-> m.after, hit |-> m.hit, e |-> e, size |-> size,
               total |-> 0,
               buf |-> <<>>,
               ret |-> 1, ig |-> m.c.logic_offset - m.c.decode_offset,
               how |-> "ok", result |-> 0] IN
    IF m.c.eof THEN st
    ELSE IF m.c.truncated THEN ReadOut(st)
    ELSE IF st.ig # 0 THEN [st EXCEPT !.how = "assert_ignorebytes"]
    ELSE ReadOut(ReadLoop(st))

\* zstdfile_read without the "if (cookie->eof) return 0"
zstdfile_read_NoEofTest(m, size, e) ==
    LET st == [c |-> m.c, f |-> m.f, errno |-> m.errno, done |-> m.done,
               after |-> m.after, hit |-> m.hit, e |-> e, size |-> size,
               total |-> 0,
               buf |-> <<>>,
               ret |-> 1, ig |-> m.c.logic_offset - m.c.decode_offset,
               how |-> "ok", result |-> 0] IN
    IF size = 0 THEN st
    ELSE IF m.c.truncated THEN ReadOut(st)
    ELSE IF st.ig # 0 THEN [st EXCEPT !.how = "assert_ignorebytes"]
    ELSE ReadOut(ReadLoop(st))

\* zstdfile_read with the truncated test ahead of the eof test
zstdfile_read_TruncatedFirst(m, size, e) ==
    LET st == [c |-> m.c, f |-> m.f, errno |-> m.errno, done |-> m.done,
               after |-> m.after, hit |-> m.hit, e |-> e, size |-> size,
               total |-> 0,
               buf |-> <<>>,
               ret |-> 1, ig |-> m.c.logic_offset - m.c.decode_offset,
               how |-> "ok", result |-> 0] IN
    IF size = 0 THEN st
    ELSE IF m.c.truncated THEN ReadOut(st)
    ELSE IF m.c.eof THEN st
    ELSE IF st.ig # 0 THEN [st EXCEPT !.how = "assert_ignorebytes"]
    ELSE ReadOut(ReadLoop(st))

\* zstdfile_read(cookie, buf, size).  m carries the cookie (c), the source
\* (f), errno and three observers: done (the engine has returned 0 since
\* zstdfile_init), after (the source was read or the engine invoked when done
\* held) and hit (the call read the source past its end).  e is the errno with which the source fails if this call
\* reads past its end (0: it reports end-of-file).  The result adds the
\* return value (result), the bytes stored in buf, and how the call ended:
\* "ok" (returned), "exit" (exit(1) or err(1)) or the assert that failed:
\* "assert_ignorebytes" (line 239) or "assert_obuf" (line 285); zstdfile_seek
\* adds "assert_eof" (line 416) and "assert_offset" (line 424).
zstdfile_read(m, size, e) ==
    LET st == [c |-> m.c, f |-> m.f, errno |-> m.errno, done |-> m.done,
               after |-> m.after, hit |-> m.hit, e |-> e, size |-> size,
               total |-> 0,
               buf |-> <<>>,
               ret |-> 1, ig |-> m.c.logic_offset - m.c.decode_offset,
               how |-> "ok", result |-> 0] IN
    IF size = 0 THEN st
    ELSE IF m.c.eof THEN st
    ELSE IF m.c.truncated THEN ReadOut(st)
    ELSE IF st.ig # 0 THEN [st EXCEPT !.how = "assert_ignorebytes"]
    ELSE ReadOut(ReadLoop(st))

(* ------------------------------- seek ---------------------------------- *)

\* the machine a handler works on, taken from the result of a read
Machine(r) ==
    [c |-> r.c, f |-> r.f, errno |-> r.errno, done |-> r.done,
     after |-> r.after, hit |-> r.hit]

\* "Emulate forward seek by skipping": the while loop of zstdfile_seek.
\* rderr records that a read of the loop returned the error indicator.
RECURSIVE SkipLoop(_, _, _)

\* the body of the loop after its read has returned r
AfterSkipRead(r, new_offset, e) ==
    IF r.how # "ok"
    THEN [m |-> Machine(r), new_offset |-> new_offset, result |-> -1,
          how |-> r.how, rderr |-> FALSE]
    ELSE IF r.result < 0
    THEN [m |-> Machine(r), new_offset |-> new_offset, result |-> -1,
          how |-> "ok", rderr |-> TRUE]
    ELSE IF r.result = 0
    THEN [m |-> Machine(r), new_offset |-> r.c.logic_offset, result |-> 0,
          how |-> IF r.c.eof THEN "ok" ELSE "assert_eof", rderr |-> FALSE]
    ELSE SkipLoop(Machine(r), new_offset, e)

\* the skip loop reading a whole scratch buffer each time, whatever distance
\* is left to the target
SkipLoop_FullChunk(m, new_offset, e) ==
    IF ~(new_offset > m.c.logic_offset)
    THEN [m |-> m, new_offset |-> new_offset, result |-> 0, how |-> "ok",
          rderr |-> FALSE]
    ELSE AfterSkipRead(zstdfile_read(m, bsz, e), new_offset, e)

\* the skip loop with "while (new_offset >= logic_offset)"
SkipLoop_WhileNotBelow(m, new_offset, e) ==
    IF ~(new_offset >= m.c.logic_offset)
    THEN [m |-> m, new_offset |-> new_offset, result |-> 0, how |-> "ok",
          rderr |-> FALSE]
    ELSE AfterSkipRead(zstdfile_read(m, min(bsz, new_offset - m.c.logic_offset), e),
                       new_offset, e)

SkipLoop(m, new_offset, e) ==
    IF ~(new_offset > m.c.logic_offset)
    THEN [m |-> m, new_offset |-> new_offset, result |-> 0, how |-> "ok",
          rderr |-> FALSE]
    ELSE AfterSkipRead(zstdfile_read(m, min(bsz, new_offset - m.c.logic_offset), e),
                       new_offset, e)

\* the target of a seek request: new_offset of zstdfile_seek
NewOffset(logic_offset, offset, whence) ==
    IF whence = SEEK_SET THEN offset
    ELSE IF whence = SEEK_CUR THEN logic_offset + offset
    ELSE 0

\* the end of zstdfile_seek once the skip loop has stopped as sk: the error
\* return, the final assert, the store to *offset_
AfterSkip(sk, offset) ==
    IF sk.how # "ok" \/ sk.result < 0
    THEN [m |-> sk.m, off |-> offset, result |-> -1, how |-> sk.how,
          rderr |-> sk.rderr]
    ELSE IF sk.m.c.logic_offset # sk.new_offset
    THEN [m |-> sk.m, off |-> offset, result |-> -1, how |-> "assert_offset",
          rderr |-> FALSE]
    ELSE [m |-> sk.m, off |-> sk.new_offset, result |-> 0, how |-> "ok",
          rderr |-> FALSE]

\* zstdfile_seek without the "SEEK_END not ok" return: new_offset keeps its
\* initial value 0 for any other whence
zstdfile_seek_AnyWhence(m, offset, whence, e) ==
    LET new_offset == NewOffset(m.c.logic_offset, offset, whence)
        fail == [m |-> m, off |-> offset, result |-> -1, how |-> "ok",
                 rderr |-> FALSE]
        rew == [m EXCEPT !.c = zstdfile_init(zstdfile_cleanup(m.c)),
                         !.f = Rewind(m.f), !.done = FALSE, !.after = FALSE] IN
    IF new_offset < 0 THEN fail
    ELSE IF new_offset < m.c.logic_offset /\ new_offset # 0 THEN fail
    ELSE IF new_offset = 0
    THEN AfterSkip([m |-> rew, new_offset |-> 0, result |-> 0, how |-> "ok",
                    rderr |-> FALSE], offset)
    ELSE AfterSkip(SkipLoop(m, new_offset, e), offset)

\* zstdfile_seek with a backward seek served by a rewind and a skip forward
\* instead of being turned down
zstdfile_seek_BackwardByRewind(m, offset, whence, e) ==
    LET new_offset == NewOffset(m.c.logic_offset, offset, whence)
        fail == [m |-> m, off |-> offset, result |-> -1, how |-> "ok",
                 rderr |-> FALSE]
        rew == [m EXCEPT !.c = zstdfile_init(zstdfile_cleanup(m.c)),
                         !.f = Rewind(m.f), !.done = FALSE, !.after = FALSE] IN
    IF whence \notin {SEEK_SET, SEEK_CUR} THEN fail
    ELSE IF new_offset < 0 THEN fail
    ELSE IF new_offset = 0
    THEN AfterSkip([m |-> rew, new_offset |-> 0, result |-> 0, how |-> "ok",
                    rderr |-> FALSE], offset)
    ELSE IF new_offset < m.c.logic_offset
    THEN AfterSkip(SkipLoop(rew, new_offset, e), offset)
    ELSE AfterSkip(SkipLoop(m, new_offset, e), offset)

\* zstdfile_seek(cookie, &offset, whence): result is the return value, off
\* the value left in *offset_
zstdfile_seek(m, offset, whence, e) ==
    LET new_offset == NewOffset(m.c.logic_offset, offset, whence)
        fail == [m |-> m, off |-> offset, result |-> -1, how |-> "ok",
                 rderr |-> FALSE]
        rew == [m EXCEPT !.c = zstdfile_init(zstdfile_cleanup(m.c)),
                         !.f = Rewind(m.f), !.done = FALSE, !.after = FALSE] IN
    IF whence \notin {SEEK_SET, SEEK_CUR} THEN fail
    ELSE IF new_offset < 0 THEN fail
    ELSE IF new_offset < m.c.logic_offset /\ new_offset # 0 THEN fail
    ELSE IF new_offset = 0
    THEN AfterSkip([m |-> rew, new_offset |-> 0, result |-> 0, how |-> "ok",
                    rderr |-> FALSE], offset)
    ELSE AfterSkip(SkipLoop(m, new_offset, e), offset)

(* ------------------------------- open ---------------------------------- *)

\* strstr(mode, ch) # NULL for a one-character needle
strstr(mode, ch) == \E i \in 1..Len(mode) : mode[i] = ch

\* zstdopenfile with the mode test looking for "w" only
zstdopenfile_WriteOnly(f, mode, err0, e) ==
    LET r == Fread(f, 4, e)
        nbr == Len(r.data)
        none == [f |-> f, c |-> NoCookie, res |-> "null", was_zstd |-> "unset",
                 errno |-> err0] IN
    IF strstr(mode, "w")
    THEN [none EXCEPT !.errno = EINVAL]
    ELSE IF r.f.err THEN [none EXCEPT !.f = r.f, !.errno = e]
    ELSE IF nbr < 4 THEN [none EXCEPT !.f = r.f]
    ELSE IF le32dec(r.data) # ZSTD_MAGICNUMBER
    THEN [none EXCEPT !.f = Rewind(r.f), !.res = "original",
                      !.was_zstd = "false"]
    ELSE [none EXCEPT !.f = Rewind(r.f), !.c = zstdfile_init(NoCookie),
                      !.res = "wrapped", !.was_zstd = "true"]

\* zstdopenfile(in, mode, &was_zstd): res is "null" (NULL), "original" (the
\* FILE passed in) or "wrapped" (the fopencookie stream)
zstdopenfile(f, mode, err0, e) ==
    LET r == Fread(f, 4, e)
        nbr == Len(r.data)
        none == [f |-> f, c |-> NoCookie, res |-> "null", was_zstd |-> "unset",
                 errno |-> err0] IN
    IF strstr(mode, "w") \/ strstr(mode, "a")
    THEN [none EXCEPT !.errno = EINVAL]
    ELSE IF r.f.err THEN [none EXCEPT !.f = r.f, !.errno = e]
    ELSE IF nbr < 4 THEN [none EXCEPT !.f = r.f]
    ELSE IF le32dec(r.data) # ZSTD_MAGICNUMBER
    THEN [none EXCEPT !.f = Rewind(r.f), !.res = "original",
                      !.was_zstd = "false"]
    ELSE [none EXCEPT !.f = Rewind(r.f), !.c = zstdfile_init(NoCookie),
                      !.res = "wrapped", !.was_zstd = "true"]

(* ------------------------------- state --------------------------------- *)

VARIABLES
    pc,             \* "start", "wrapped", "original", "null", "closed",
                    \* "exited" (exit(1)/err(1)), "aborted" (failed assert)
    in,             \* the source FILE: data, pos, eof, err
    cookie,         \* struct zstdfile
    errno,
    was_zstd,       \* *was_zstd: "unset", "true", "false"
    last,           \* the last call and what it returned
    phase,          \* since zstdfile_init: "fresh" (no call), "seeked" (one
                    \* call, a forward seek that succeeded), "seekread" (a
                    \* read after that), "other"
    frame_done,     \* the engine has returned 0 since zstdfile_init
    io_after_done,  \* the source was read or the engine invoked after that
    only_reads,     \* no seek since zstdfile_init
    delivered,      \* bytes the reads returned since zstdfile_init
    nerr,           \* reads that returned the error since zstdfile_init
    zero_first      \* a read returned 0 before any returned the error

vars == <<pc, in, cookie, errno, was_zstd, last, phase, frame_done,
          io_after_done, only_reads, delivered, nerr, zero_first>>

\* what is recorded of a call: op, the size of a read, the target of a seek
\* that was not turned down (rejected), the mode of an open, the return value
\* (ret), the bytes a read stored, *offset_ after a seek (off), and
\* logic_offset before a seek to offset 0 or to the current offset (pre).  rejected is "no", or why the seek
\* request is not allowed: "whence", "negative" or "backward".  failed names
\* the exit or the assert that ended the process in the call.
NoCall ==
    [op |-> "none", size |-> 0, target |-> 0, rejected |-> "no",
     mode |-> <<>>, ret |-> 0, buf |-> <<>>, off |-> 0, pre |-> 0,
     failed |-> "none"]

\* errno values with which a read of the source can fail (0: it does not)
Fails == {0, ENOBUFS, EIO}

\* why a seek request is not allowed ("no": it is allowed)
Rejection(logic_offset, offset, whence) ==
    LET new_offset == NewOffset(logic_offset, offset, whence) IN
    IF whence \notin {SEEK_SET, SEEK_CUR} THEN "whence"
    ELSE IF new_offset < 0 THEN "negative"
    ELSE IF new_offset < logic_offset /\ new_offset # 0 THEN "backward"
    ELSE "no"

\* the seek requests of the callers
SeekArgs ==
    {<<o, SEEK_SET>> : o \in (-1)..MaxSeek} \cup
    {<<o, SEEK_CUR>> : o \in (-1)..2} \cup {<<0, SEEK_END>>}

ClosedFile(f) == [f EXCEPT !.pos = 0, !.eof = FALSE, !.err = FALSE]

Init ==
    /\ pc = "start"
    /\ in \in {[data |-> d, pos |-> 0, eof |-> FALSE, err |-> FALSE] :
                   d \in Sources}
    /\ cookie = NoCookie
    /\ errno = 0
    /\ was_zstd = "unset"
    /\ last = NoCall
    /\ phase = "fresh"
    /\ frame_done = FALSE
    /\ io_after_done = FALSE
    /\ only_reads = TRUE
    /\ delivered = <<>>
    /\ nerr = 0
    /\ zero_first = FALSE

ThisMachine ==
    [c |-> cookie, f |-> in, errno |-> errno, done |-> frame_done,
     after |-> io_after_done, hit |-> FALSE]

\* the ways the source can fail in a call: none unless the call reads the
\* source past its end
SourceFails(hit) == IF hit THEN Fails ELSE {0}

\* the process is gone (exit, abort) or the stream closed: nothing of the
\* stream is left to observe
Gone(newpc, call) ==
    /\ pc' = newpc
    /\ in' = ClosedFile(in)
    /\ cookie' = NoCookie
    /\ last' = call
    /\ phase' = "other"
    /\ frame_done' = FALSE
    /\ io_after_done' = FALSE
    /\ only_reads' = FALSE
    /\ delivered' = <<>>
    /\ nerr' = 0
    /\ zero_first' = FALSE
    /\ UNCHANGED <<errno, was_zstd>>

\* the state after zstdopenfile has returned r
Opening(mode, r) ==
    /\ pc' = r.res
    /\ in' = r.f
    /\ cookie' = r.c
    /\ errno' = r.errno
    /\ was_zstd' = r.was_zstd
    /\ last' = [NoCall EXCEPT !.op = "open", !.mode = mode]
    /\ UNCHANGED <<phase, frame_done, io_after_done, only_reads, delivered,
                   nerr, zero_first>>

\* the caller opens the source
Open ==
    /\ pc = "start"
    /\ \E mode \in Modes, e \in SourceFails(Len(in.data) < 4) :
          Opening(mode, zstdopenfile(in, mode, errno, e))

\* the state after zstdfile_read(cookie, buf, size) has ended as r
Reading(size, r) ==
    IF r.how # "ok"
    THEN Gone(IF r.how = "exit" THEN "exited" ELSE "aborted",
              [NoCall EXCEPT !.op = "read", !.size = size, !.failed = r.how])
    ELSE /\ in' = r.f
         /\ cookie' = r.c
         /\ errno' = r.errno
         /\ frame_done' = r.done
         /\ io_after_done' = r.after
         /\ last' = [NoCall EXCEPT !.op = "read", !.size = size,
                                   !.ret = r.result, !.buf = r.buf]
         /\ phase' = IF phase = "seeked" THEN "seekread" ELSE "other"
         /\ delivered' = IF only_reads THEN delivered \o r.buf ELSE <<>>
         /\ nerr' = IF r.result = -1 THEN min(nerr + 1, 2) ELSE nerr
         /\ zero_first' = (zero_first \/ (size > 0 /\ r.result = 0 /\ nerr = 0))
         /\ UNCHANGED <<pc, was_zstd, only_reads>>

\* the stream host calls the read handler
Read ==
    /\ pc = "wrapped"
    /\ \E size \in 0..MaxRead :
       \E e \in SourceFails(zstdfile_read(ThisMachine, size, 0).hit) :
          Reading(size, zstdfile_read(ThisMachine, size, e))

\* the state after zstdfile_seek(cookie, &offset, whence) has ended as r
Seeking(offset, whence, r) ==
    LET new_offset == NewOffset(cookie.logic_offset, offset, whence)
        rejected == Rejection(cookie.logic_offset, offset, whence)
        reset == rejected = "no" /\ new_offset = 0
        call == [NoCall EXCEPT !.op = "seek",
                               !.target = IF rejected # "no" THEN 0 ELSE new_offset,
                               !.rejected = rejected,
                               !.ret = r.result,
                               !.off = IF r.result = 0 THEN r.off ELSE 0,
                               !.pre = IF reset \/ (rejected = "no" /\
                                                    new_offset = cookie.logic_offset)
                                       THEN cookie.logic_offset ELSE 0] IN
    IF r.how # "ok"
    THEN Gone(IF r.how = "exit" THEN "exited" ELSE "aborted",
              [call EXCEPT !.ret = 0, !.failed = r.how])
    ELSE /\ in' = r.m.f
         /\ cookie' = r.m.c
         /\ errno' = r.m.errno
         /\ frame_done' = r.m.done
         /\ io_after_done' = r.m.after
         /\ last' = call
         /\ phase' = IF reset THEN "fresh"
                     ELSE IF phase = "fresh" /\ r.result = 0
                             /\ new_offset > cookie.logic_offset
                          THEN "seeked" ELSE "other"
         /\ only_reads' = reset
         /\ delivered' = <<>>
         /\ nerr' = IF reset THEN 0
                    ELSE IF r.rderr THEN min(nerr + 1, 2) ELSE nerr
         /\ zero_first' = (~reset /\ zero_first)
         /\ UNCHANGED <<pc, was_zstd>>

\* the stream host calls the seek handler
Seek ==
    /\ pc = "wrapped"
    /\ \E a \in SeekArgs :
       \E e \in SourceFails(zstdfile_seek(ThisMachine, a[1], a[2], 0).m.hit) :
          Seeking(a[1], a[2], zstdfile_seek(ThisMachine, a[1], a[2], e))

\* the stream host calls the close handler: zstdfile_close
Close ==
    /\ pc = "wrapped"
    /\ Gone("closed", [NoCall EXCEPT !.op = "close"])

Next == Open \/ Read \/ Seek \/ Close

Spec == Init /\ [][Next]_vars

(* ------------------- what a source holds (for the claims) -------------- *)

\* The first frame of a source, read off its bytes: complete (its last block
\* is there in full), dec (what its complete blocks decode to) and end (where
\* the frame, or the data, ends).
RECURSIVE ParseBlocks(_, _, _)
ParseBlocks(data, pos, dec) ==
    IF pos >= Len(data)
    THEN [complete |-> FALSE, dec |-> dec, end |-> Len(data)]
    ELSE LET size == data[pos + 1] \div 2
             islast == data[pos + 1] % 2 = 1
             payload == SubSeq(data, pos + 2, pos + 1 + size) IN
         IF pos + 1 + size > Len(data)
         THEN [complete |-> FALSE, dec |-> dec, end |-> Len(data)]
         ELSE LET dec1 == dec \o [i \in 1..size |-> DecodeByte(payload[i])] IN
              IF islast
              THEN [complete |-> TRUE, dec |-> dec1, end |-> pos + 1 + size]
              ELSE ParseBlocks(data, pos + 1 + size, dec1)

HasMagic(data) == Len(data) >= 4 /\ Take(data, 4) = MagicBytes

FirstFrame(data) == ParseBlocks(data, 4, <<>>)

\* the magic header and exactly one complete frame
OneFrame(data) ==
    /\ HasMagic(data)
    /\ FirstFrame(data).complete
    /\ FirstFrame(data).end = Len(data)

\* the magic header, and a body that ends before the first frame does
TruncatedMidFrame(data) == HasMagic(data) /\ ~FirstFrame(data).complete

IsPrefix(s, t) == Len(s) <= Len(t) /\ s = Take(t, Len(s))

\* a stream right after zstdopenfile has wrapped the source
FreshMachine(data) ==
    [c |-> zstdfile_init(NoCookie),
     f |-> [data |-> data, pos |-> 0, eof |-> FALSE, err |-> FALSE],
     errno |-> 0, done |-> FALSE, after |-> FALSE, hit |-> FALSE]

\* reading a stream to exhaustion with reads of one size, the source not
\* failing: the bytes returned and the return value of the final read (-2 if
\* the process ended instead)
RECURSIVE ReadAll(_, _, _)

ReadMore(r, size, bytes) ==
    IF r.how # "ok" THEN [bytes |-> bytes, final |-> -2]
    ELSE IF r.result <= 0 THEN [bytes |-> bytes, final |-> r.result]
    ELSE ReadAll(Machine(r), size, bytes \o r.buf)

ReadAll(m, size, bytes) == ReadMore(zstdfile_read(m, size, 0), size, bytes)

Opened == pc = "wrapped"

(* ------------------------------- claims -------------------------------- *)

\* C1: for a source holding the magic header and exactly one complete frame,
\* under every sequence of reads (the source not failing) no read returns the
\* error, the truncated flag is never set, and a read of positive size made
\* once all decoded bytes have been delivered returns 0.
C1_CleanEndOfStream ==
    (Opened /\ OneFrame(in.data) /\ only_reads /\ ~in.err) =>
        /\ ~cookie.truncated
        /\ nerr = 0
        /\ (last.op = "read" => last.ret >= 0)
        /\ (last.op = "read" /\ last.size > 0 /\ last.buf = <<>>
              /\ delivered = FirstFrame(in.data).dec => last.ret = 0)

\* C2: on a complete stream of decoded length L, a seek whose target is
\* greater than L succeeds, returns L and leaves logical_offset at L, from
\* every starting offset; and a read that follows it returns 0.
C2_SeekPastEnd ==
    /\ [](Opened /\ OneFrame(in.data) /\ ~in.err /\ last.op = "seek"
            /\ last.rejected = "no"
            /\ last.target > Len(FirstFrame(in.data).dec)
          => /\ last.ret = 0
             /\ last.off = Len(FirstFrame(in.data).dec)
             /\ cookie.logic_offset = Len(FirstFrame(in.data).dec))
    /\ [][(Opened /\ OneFrame(in.data) /\ ~in.err /\ last.op = "seek"
             /\ last.rejected = "no"
             /\ last.target > Len(FirstFrame(in.data).dec)
             /\ last'.op = "read" /\ last'.size > 0)
          => last'.ret = 0]_vars

\* C3: for a source whose body ends mid-frame, reads of positive sizes on a
\* fresh stream return positive counts that deliver exactly the decodable
\* prefix, then exactly one read returns the error; no read returns 0 before
\* the error has been reported.
C3_TruncatedPrefixThenError ==
    (Opened /\ TruncatedMidFrame(in.data) /\ only_reads /\ ~in.err) =>
        /\ nerr <= 1
        /\ ~zero_first
        /\ IsPrefix(delivered, FirstFrame(in.data).dec)
        /\ (nerr = 1 => delivered = FirstFrame(in.data).dec)
        /\ (last.op = "read" /\ last.ret = -1 => errno = ENOBUFS)

\* C4: read-size independence: reading a fresh stream to exhaustion yields
\* the same bytes whatever the size of the reads.
C4_ReadSizeIndependence ==
    (Opened /\ phase = "fresh") =>
        \A s1 \in 1..MaxRead, s2 \in 1..MaxRead :
            ReadAll(ThisMachine, s1, <<>>).bytes
                = ReadAll(ThisMachine, s2, <<>>).bytes

\* C5: seek/read equivalence: on a fresh stream whose frame decodes to L
\* bytes, a forward seek to k followed by a read of n bytes, k + n <= L,
\* returns the bytes that a read of k + n bytes on a fresh stream returns
\* after its first k.
C5_SeekReadEquivalence ==
    [][(/\ Opened /\ phase = "seeked" /\ FirstFrame(in.data).complete
        /\ last'.op = "read" /\ pc' = "wrapped" /\ ~in'.err
        /\ cookie.logic_offset + last'.size <= Len(FirstFrame(in.data).dec))
       => LET k == cookie.logic_offset
              n == last'.size
              ref == zstdfile_read(FreshMachine(in.data), k + n, 0) IN
          /\ last.off = k
          /\ last'.ret = n
          /\ ref.result = k + n
          /\ last'.buf = SubSeq(ref.buf, k + 1, k + n)]_vars

\* C5 witness: a read of n > 0 bytes has followed a forward seek on a fresh
\* stream and stayed within the decoded length
C5_Witness ==
    /\ Opened /\ phase = "seekread" /\ FirstFrame(in.data).complete
    /\ last.op = "read" /\ last.size > 0 /\ last.ret = last.size
    /\ cookie.logic_offset > last.size
    /\ cookie.logic_offset <= Len(FirstFrame(in.data).dec)

\* C6: rewind idempotence: after a seek to offset 0, whatever was consumed
\* before, reading to end-of-stream gives what a freshly opened stream gives
\* (the same bytes and the same final return value, for every read size).
C6_RewindIdempotence ==
    (Opened /\ last.op = "seek" /\ last.rejected = "no" /\ last.target = 0) =>
        /\ last.ret = 0
        /\ \A s \in 1..MaxRead :
              ReadAll(ThisMachine, s, <<>>)
                  = ReadAll(FreshMachine(in.data), s, <<>>)

\* C6 witness: the stream was rewound after data had been consumed and a
\* read had reported the end, and there is data to read again
C6_Witness ==
    /\ Opened /\ last.op = "seek" /\ last.rejected = "no" /\ last.target = 0
    /\ last.pre > 0
    /\ ReadAll(ThisMachine, 1, <<>>).bytes # <<>>

\* C7: a rejected seek request (bad whence, negative target, backward target
\* other than 0) returns an error and leaves the stream as it was: cookie
\* (offsets, buffers and cursors, eof, truncated), source and status.
C7_RejectedSeekChangesNothing ==
    [][(Opened /\ last'.op = "seek" /\ last'.rejected # "no")
       => /\ last'.ret = -1
          /\ cookie' = cookie
          /\ in' = in
          /\ pc' = pc]_vars

\* C7 witness: a backward seek has been rejected on a stream that had
\* delivered data
C7_Witness ==
    /\ Opened /\ last.op = "seek" /\ last.rejected = "backward"
    /\ last.ret = -1 /\ cookie.logic_offset > 1

\* C8 as stated: once a read has reported the truncation error, after every
\* later read or seek eof is true and no read delivers a byte.
C8_PermanentEndState ==
    [][(Opened /\ nerr > 0 /\ pc' = "wrapped")
       => /\ cookie'.eof
          /\ (last'.op = "read" => last'.buf = <<>>)]_vars

\* C8 amended: once a read has reported the truncation error, after every
\* later read or seek other than a seek to offset 0 (which resets the
\* stream) eof is true and no read delivers a byte.
C8_EndStateUntilRewind ==
    [][(/\ Opened /\ nerr > 0 /\ pc' = "wrapped"
        /\ ~(last'.op = "seek" /\ last'.rejected = "no" /\ last'.target = 0))
       => /\ cookie'.eof
          /\ cookie'.truncated
          /\ (last'.op = "read" => last'.buf = <<>> /\ last'.ret = 0)]_vars

\* C8 witness: a read of positive size was made after the error had been
\* reported
C8_Witness ==
    /\ Opened /\ nerr = 1 /\ last.op = "read" /\ last.size > 0
    /\ last.ret = 0 /\ cookie.eof

\* C9: once the engine has returned the frame-complete signal, no read reads
\* the source or invokes the engine again, and no byte beyond the first frame
\* is delivered, until a reset to offset 0.
C9_StopsAtFirstFrame ==
    Opened =>
        /\ ~io_after_done
        /\ (FirstFrame(in.data).complete
              => cookie.logic_offset <= Len(FirstFrame(in.data).dec))

\* C10: opening (for reading) a source of at least 4 bytes whose first 4
\* bytes are not the magic number returns the original source positioned at
\* its start, reports was_zstd = false and allocates no cookie, buffers or
\* engine session.
C10_PlainSourcePassedThrough ==
    (/\ last.op = "open" /\ Len(in.data) >= 4 /\ ~HasMagic(in.data)
     /\ ~strstr(last.mode, "w") /\ ~strstr(last.mode, "a")) =>
        /\ pc = "original"
        /\ was_zstd = "false"
        /\ in.pos = 0 /\ ~in.eof /\ ~in.err
        /\ cookie = NoCookie

\* C10 witness: a plain source has been opened
C10_Witness ==
    /\ last.op = "open" /\ pc = "original" /\ ~HasMagic(in.data)
    /\ Len(in.data) >= 4

C12_ErrorOnEveryLaterRead ==
    [][(/\ Opened /\ cookie.truncated /\ nerr > 0
        /\ last.op = "read" /\ last.size > 0 /\ last.ret >= 0
        /\ last'.op = "read" /\ last'.size > 0 /\ pc' = "wrapped")
       => last'.ret = -1]_vars

\* C12 amended: truncated is set without eof only by a read that returns a
\* short positive count; with truncated set, a read of positive size reports
\* the error (ENOBUFS) and sets eof if eof is not set yet, and returns 0
\* with no byte if it is.
C12_OneErrorThenEndOfStream ==
    [][/\ (Opened /\ ~cookie.truncated /\ pc' = "wrapped"
             /\ cookie'.truncated /\ ~cookie'.eof)
           => last'.op = "read" /\ 0 < last'.ret /\ last'.ret < last'.size
       /\ (Opened /\ cookie.truncated
             /\ last'.op = "read" /\ last'.size > 0 /\ pc' = "wrapped")
           => IF cookie.eof
              THEN last'.ret = 0 /\ last'.buf = <<>> /\ cookie' = cookie
              ELSE /\ last'.ret = -1 /\ last'.buf = <<>>
                   /\ errno' = ENOBUFS /\ cookie'.eof /\ cookie'.truncated]_vars

\* C12 witness: a short read has returned bytes and left truncated set, the
\* error not yet reported
C12_Witness ==
    /\ Opened /\ cookie.truncated /\ ~cookie.eof
    /\ last.op = "read" /\ last.ret > 0 /\ nerr = 0

\* C13: with eof set, a read returns 0 and stores no byte, and it leaves the
\* cookie (engine session, offsets, buffers and their cursors, flags), the
\* source and errno as they were; so does a forward seek, whose skip loop
\* makes such a read.
C13_NoWorkAtEof ==
    [][(/\ Opened /\ cookie.eof
        /\ \/ last'.op = "read"
           \/ last'.op = "seek" /\ last'.rejected = "no" /\ last'.target > 0)
       => /\ pc' = "wrapped"
          /\ last'.ret = 0 /\ last'.buf = <<>>
          /\ cookie' = cookie
          /\ in' = in
          /\ errno' = errno
          /\ io_after_done' = io_after_done]_vars

\* C13 witness: a read of positive size has returned 0 on a stream that had
\* delivered data and met no truncation (only a read that found eof set on
\* entry does that: the engine ends a frame of data with output or not at all)
C13_Witness ==
    /\ Opened /\ cookie.eof /\ ~cookie.truncated /\ cookie.logic_offset > 0
    /\ last.op = "read" /\ last.size > 0 /\ last.ret = 0
    /\ in.pos = Len(in.data)

\* C14: on every step of a stream (a read or a seek that returns),
\* logic_offset does not decrease, except in a seek whose target is 0, which
\* sets it to 0.
C14_OffsetMonotone ==
    [][(Opened /\ pc' = "wrapped")
       => IF last'.op = "seek" /\ last'.rejected = "no" /\ last'.target = 0
          THEN cookie'.logic_offset = 0
          ELSE cookie'.logic_offset >= cookie.logic_offset]_vars

\* C14 witness: a seek to 0 has taken logic_offset from a positive value
\* back to 0
C14_Witness ==
    /\ Opened /\ last.op = "seek" /\ last.rejected = "no" /\ last.target = 0
    /\ last.ret = 0 /\ last.pre > 1 /\ cookie.logic_offset = 0

\* C15: after a seek that returned success, logic_offset equals the offset
\* the seek handed back, which is the requested target or, when the stream
\* ended before it (eof), the offset of the end; and no seek ends in a
\* failure of the assertion that closes zstdfile_seek.
C15_SeekPostcondition ==
    /\ last.failed # "assert_offset"
    /\ (Opened /\ last.op = "seek" /\ last.ret = 0)
         => /\ cookie.logic_offset = last.off
            /\ \/ last.off = last.target
               \/ last.off < last.target /\ cookie.eof

\* C15 witness: a forward seek has succeeded short of its target, clamped at
\* the end of a stream that had data
C15_Witness ==
    /\ Opened /\ last.op = "seek" /\ last.ret = 0
    /\ 0 < last.off /\ last.off < last.target
    /\ cookie.logic_offset = last.off

\* C16: between the calls of an open stream the buffer cursors are ordered
\* and in bounds: 0 <= outbuf_start <= obuf.pos <= obuf.size, the capacity of
\* outbuf, and 0 <= ibuf.pos <= ibuf.size <= inbuf_size, the capacity of
\* inbuf; and the bytes in the buffers reach as far as the cursors say.
C16_CursorsInBounds ==
    Opened =>
        /\ 0 <= cookie.outbuf_start
        /\ cookie.outbuf_start <= cookie.obuf.pos
        /\ cookie.obuf.pos <= cookie.obuf.size
        /\ cookie.obuf.size = OutSize
        /\ 0 <= cookie.ibuf.pos
        /\ cookie.ibuf.pos <= cookie.ibuf.size
        /\ cookie.ibuf.size <= cookie.inbuf_size
        /\ cookie.inbuf_size = InSize
        /\ cookie.obuf.pos <= Len(cookie.outbuf)
        /\ cookie.ibuf.size <= Len(cookie.inbuf)

\* C16 witness: both buffers are partly consumed: undelivered output is left
\* behind delivered output, and unconsumed input behind consumed input
C16_Witness ==
    /\ Opened
    /\ 0 < cookie.outbuf_start /\ cookie.outbuf_start < cookie.obuf.pos
    /\ 0 < cookie.ibuf.pos /\ cookie.ibuf.pos < cookie.ibuf.size

\* C17: decode_offset equals logic_offset whenever a read can be called:
\* between the calls of an open stream, whatever reads, forward seeks, failed
\* seeks and resets came before; and no read, called by the host or by the
\* skip loop of a seek, ends in a failure of the assertion that their
\* difference is zero.
C17_OffsetsEqualAtRead ==
    /\ last.failed # "assert_ignorebytes"
    /\ Opened => cookie.decode_offset = cookie.logic_offset

\* C17 witness: a read has delivered data on a stream that had been read and
\* sought before
C17_Witness ==
    /\ Opened /\ last.op = "read" /\ last.ret > 0
    /\ cookie.logic_offset > last.ret
    /\ cookie.decode_offset = cookie.logic_offset
    /\ phase = "other" /\ ~only_reads

\* what C18 says a seek to the current offset leaves unchanged: the offsets,
\* the buffer cursors, eof, truncated and the position of the source
Position(c, f) ==
    <<c.logic_offset, c.decode_offset, c.outbuf_start, c.obuf.pos, c.ibuf.pos,
      c.ibuf.size, c.eof, c.truncated, f.pos>>

\* C18 as stated: a seek whose target equals logic_offset, 0 included,
\* succeeds, hands back that offset and leaves offsets, buffer cursors, eof,
\* truncated and the source position unchanged.
C18_SeekToCurrentIsNoOp ==
    [][(/\ Opened /\ last'.op = "seek" /\ last'.rejected = "no"
        /\ last'.target = cookie.logic_offset)
       => /\ pc' = "wrapped"
          /\ last'.ret = 0 /\ last'.off = cookie.logic_offset
          /\ Position(cookie', in') = Position(cookie, in)]_vars

\* C18 amended: a seek whose target equals logic_offset succeeds and hands
\* back that offset; if the offset is not 0 it changes nothing of the cookie
\* or the source, and if it is 0 it is the full reset: offsets and cursors 0,
\* eof and truncated cleared, the source rewound.
C18_SeekToCurrentNoOpOrReset ==
    [][(/\ Opened /\ last'.op = "seek" /\ last'.rejected = "no"
        /\ last'.target = cookie.logic_offset)
       => /\ pc' = "wrapped"
          /\ last'.ret = 0 /\ last'.off = cookie.logic_offset
          /\ IF cookie.logic_offset # 0
             THEN cookie' = cookie /\ in' = in
             ELSE /\ cookie' = zstdfile_init(NoCookie)
                  /\ in' = Rewind(in)]_vars

\* C18 witness: a seek to the current offset, not 0, has been made on a
\* stream with undelivered output in its buffer
C18_Witness ==
    /\ Opened /\ last.op = "seek" /\ last.rejected = "no" /\ last.ret = 0
    /\ last.target > 0 /\ last.pre = last.target
    /\ cookie.logic_offset = last.target
    /\ cookie.outbuf_start < cookie.obuf.pos

\* C19: a read of size 0 returns 0 and changes nothing of the cookie, the
\* source or errno, truncated set or not; a read of positive size that
\* returns n >= 0 has n <= size, stores n bytes and adds exactly n to
\* logic_offset; a read that returns the error stores no byte and leaves
\* logic_offset as it was.
C19_ReadCountAndOffset ==
    [][(Opened /\ last'.op = "read")
       => IF last'.size = 0
          THEN /\ pc' = "wrapped" /\ last'.ret = 0 /\ last'.buf = <<>>
               /\ cookie' = cookie /\ in' = in /\ errno' = errno
          ELSE pc' = "wrapped"
               => IF last'.ret >= 0
                  THEN /\ last'.ret <= last'.size
                       /\ Len(last'.buf) = last'.ret
                       /\ cookie'.logic_offset = cookie.logic_offset + last'.ret
                  ELSE /\ last'.ret = -1
                       /\ last'.buf = <<>>
                       /\ cookie'.logic_offset = cookie.logic_offset]_vars

\* C19 witness: a read of size 0 has been made with truncated set and the
\* error not yet reported, after reads that delivered data
C19_Witness ==
    /\ Opened /\ last.op = "read" /\ last.size = 0 /\ last.ret = 0
    /\ cookie.truncated /\ ~cookie.eof /\ nerr = 0
    /\ cookie.logic_offset > 0

\* C20: after a read of positive size that returned 0, eof is set, truncated
\* set or not; and no seek ends in a failure of the assertion of the skip
\* loop that eof holds when its read returns 0.
C20_ZeroMeansEof ==
    /\ last.failed # "assert_eof"
    /\ (Opened /\ last.op = "read" /\ last.size > 0 /\ last.ret = 0)
         => cookie.eof

\* C20 witness: a read of positive size has returned 0 at the end of a frame
\* that decodes to nothing, no truncation met
C20_Witness ==
    /\ Opened /\ last.op = "read" /\ last.size > 0 /\ last.ret = 0
    /\ cookie.eof /\ ~cookie.truncated /\ frame_done
    /\ cookie.logic_offset = 0 /\ only_reads

====
